---- MODULE Spec2Model ----
(***************************************************************************)
(* Gwynne's Care Notes (src/app/page.js).                                  *)
(*                                                                         *)
(* Two state machines over one set of variables:                           *)
(*   Spec    the synchronous parser parseAndStructure, one step per        *)
(*           statement group (split/header, one forEach iteration, return) *)
(*   SpecUI  the React component's event handlers and their asynchronous   *)
(*           completions (FileReader onload, performOCR, the demo timer)   *)
(*                                                                         *)
(* JS strings are TLA+ strings; a character is a string of length 1.       *)
(* The module is ASCII, so U+2013 (en dash) is written "~".                *)
(* JS numbers are exact decimals with four fractional digits (an integer   *)
(* count of 1/Scale) or NaN; -0 is not distinguished from 0, and           *)
(* Infinity / exponent literals are outside the modelled inputs.           *)
(***************************************************************************)
EXTENDS Integers, Sequences, FiniteSets, TLC

VARIABLES
    \* parseAndStructure
    text,            \* the argument
    pc,              \* "start" | "loop" | "done"
    lines,           \* const lines
    idx,             \* index into lines of the next forEach element
    clientName,
    date,
    activities,      \* const activities = []
    totalMinutes,    \* let totalMinutes = 0
    result,          \* the returned record, once pc = "done"
    src,             \* history: for each pushed activity, the index in lines of its source line
    \* GwynneApp
    uploadedImage,
    extractedText,
    structuredData,
    isProcessing,
    processingStep,
    tasks,           \* asynchronous work in flight
    sinceReset       \* history: reset has run and no upload or demo was started since

parserVars == <<text, pc, lines, idx, clientName, date, activities, totalMinutes, result, src>>
uiVars == <<uploadedImage, extractedText, structuredData, isProcessing, processingStep, tasks, sinceReset>>
vars == <<parserVars, uiVars>>

----------------------------------------------------------------------------
(* Bounds of the model *)

MaxLines == 2        \* body lines in a generated note
MaxPieces == 4       \* pieces in a generated time token
MaxTasks == 2        \* asynchronous tasks in flight at once

----------------------------------------------------------------------------
(* Characters and strings *)

Digits == {"0", "1", "2", "3", "4", "5", "6", "7", "8", "9"}
WhiteSpace == {" ", "\t", "\r", "\n", "\f"}
LineTerminators == {"\n", "\r"}
EnDash == "~"
NumberChars == Digits \cup {"."}

\* s.substring(i - 1, j), with the indices clamped to the string
Sub(s, i, j) ==
    LET lo == IF i < 1 THEN 1 ELSE i
        hi == IF j > Len(s) THEN Len(s) ELSE j
    IN  IF lo > hi THEN "" ELSE SubSeq(s, lo, hi)

At(s, i) == Sub(s, i, i)

\* length of the longest run of characters of S that starts at position p
RECURSIVE RunLen(_, _, _)
RunLen(s, p, S) ==
    IF p <= Len(s) /\ At(s, p) \in S THEN 1 + RunLen(s, p + 1, S) ELSE 0

\* length of the longest run of characters not in S that starts at position p
RECURSIVE RunLenNot(_, _, _)
RunLenNot(s, p, S) ==
    IF p <= Len(s) /\ At(s, p) \notin S THEN 1 + RunLenNot(s, p + 1, S) ELSE 0

Min(S) == CHOOSE x \in S : \A y \in S : x <= y

RECURSIVE trimStart(_)
trimStart(s) ==
    IF s # "" /\ Head(s) \in WhiteSpace THEN trimStart(Tail(s)) ELSE s

RECURSIVE trimEnd(_)
trimEnd(s) ==
    IF s # "" /\ At(s, Len(s)) \in WhiteSpace
    THEN trimEnd(Sub(s, 1, Len(s) - 1))
    ELSE s

trim(s) == trimEnd(trimStart(s))

includes(s, sub) ==
    \E i \in 1..(Len(s) - Len(sub) + 1) : Sub(s, i, i + Len(sub) - 1) = sub

\* text.split('\n')
RECURSIVE split(_)
split(s) ==
    LET n == RunLenNot(s, 1, {"\n"})
    IN  IF n = Len(s)
        THEN <<s>>
        ELSE <<Sub(s, 1, n)>> \o split(Sub(s, n + 2, Len(s)))

\* text.split('\n').filter(line => line.trim())
splitLines(s) == SelectSeq(split(s), LAMBDA line : trim(line) # "")

----------------------------------------------------------------------------
(* Numbers *)

Scale == 10 * 10 * 10 * 10

NaN == [nan |-> TRUE, v |-> 0]
Num(n) == [nan |-> FALSE, v |-> n]
Whole(n) == Num(n * Scale)

Plus(a, b) == IF a.nan \/ b.nan THEN NaN ELSE Num(a.v + b.v)
Times(a, n) == IF a.nan THEN NaN ELSE Num(a.v * n)
\* a >= n, false when a is NaN
GreaterEq(a, n) == ~a.nan /\ a.v >= n * Scale

DigitVal(c) == CHOOSE n \in 0..9 : At("0123456789", n + 1) = c

RECURSIVE DigitsValue(_)
DigitsValue(d) ==
    IF d = "" THEN 0
    ELSE 10 * DigitsValue(Sub(d, 1, Len(d) - 1)) + DigitVal(At(d, Len(d)))

RECURSIVE FracValue(_, _)
FracValue(d, unit) ==
    IF d = "" \/ unit = 0 THEN 0
    ELSE DigitVal(Head(d)) * unit + FracValue(Tail(d), unit \div 10)

\* parseFloat: skips leading white space, reads the longest prefix that is a
\* decimal literal [+-] digits [. digits] holding at least one digit
parseFloat(s) ==
    LET t == trimStart(s)
        signed == At(t, 1) \in {"+", "-"}
        body == IF signed THEN Tail(t) ELSE t
        i == RunLen(body, 1, Digits)
        f == IF At(body, i + 1) = "." THEN RunLen(body, i + 2, Digits) ELSE 0
        mag == DigitsValue(Sub(body, 1, i)) * Scale
               + FracValue(Sub(body, i + 2, i + 1 + f), Scale \div 10)
    IN  IF i + f = 0 THEN NaN
        ELSE Num(IF At(t, 1) = "-" THEN 0 - mag ELSE mag)

\* parseInt: skips leading white space, reads [+-] digits
parseInt(s) ==
    LET t == trimStart(s)
        signed == At(t, 1) \in {"+", "-"}
        body == IF signed THEN Tail(t) ELSE t
        i == RunLen(body, 1, Digits)
        mag == DigitsValue(Sub(body, 1, i)) * Scale
    IN  IF i = 0 THEN NaN
        ELSE Num(IF At(t, 1) = "-" THEN 0 - mag ELSE mag)

----------------------------------------------------------------------------
(* The header: /^([^0-9]+?)(?:\s+(\d{1,2}\/\d{1,2}\/\d{2,4}))?$/ *)

Today == "11/5/2026"     \* new Date().toLocaleDateString()

\* \d{1,2}\/\d{1,2}\/\d{2,4} matching the whole of d
isDateToken(d) ==
    LET a == RunLen(d, 1, Digits)
        b == RunLen(d, a + 2, Digits)
        c == RunLen(d, a + b + 3, Digits)
    IN  /\ a \in 1..2
        /\ At(d, a + 1) = "/"
        /\ b \in 1..2
        /\ At(d, a + b + 2) = "/"
        /\ c \in 2..4
        /\ a + b + c + 2 = Len(d)

\* group 2 when (?:\s+(date))?$ matches with the group right after a group 1
\* of k characters; "" when the group does not take part
dateAfter(s, k) ==
    LET w == RunLen(s, k + 1, WhiteSpace)
        d == Sub(s, k + w + 1, Len(s))
    IN  IF w >= 1 /\ isDateToken(d) THEN d ELSE ""

NoMatch == [matched |-> FALSE, g1 |-> "", g2 |-> ""]

\* firstLine.match(...): group 1 is lazy, so the shortest non-digit prefix
\* after which the rest of the pattern matches up to the end of the line
clientMatch(firstLine) ==
    LET n == RunLenNot(firstLine, 1, Digits)
        ks == {k \in 1..n : dateAfter(firstLine, k) # "" \/ k = Len(firstLine)}
    IN  IF ks = {} THEN NoMatch
        ELSE LET k == Min(ks)
             IN  [matched |-> TRUE,
                  g1 |-> Sub(firstLine, 1, k),
                  g2 |-> dateAfter(firstLine, k)]

\* the fallback name forgotten
headerName_noFallback(firstLine) ==
    LET m == clientMatch(firstLine)
    IN  IF m.matched THEN trim(m.g1) ELSE ""

headerName(firstLine) ==
    LET m == clientMatch(firstLine)
    IN  IF m.matched THEN trim(m.g1) ELSE "Client"

headerDate(firstLine) ==
    LET m == clientMatch(firstLine)
    IN  IF m.matched THEN (IF m.g2 # "" THEN m.g2 ELSE Today) ELSE Today

----------------------------------------------------------------------------
(* A numbered entry: /^\d+\./ and /^\d+\.\s*(.+?)\s*[-~]\s*(.+)$/ *)

Max(S) == CHOOSE x \in S : \A y \in S : x >= y

isNumbered(line) ==
    LET m == RunLen(line, 1, Digits)
    IN  m >= 1 /\ At(line, m + 1) = "."

\* position of the last line terminator of s, 0 when it has none
RECURSIVE lastTerminator(_, _)
lastTerminator(s, i) ==
    IF i = 0 \/ At(s, i) \in LineTerminators THEN i ELSE lastTerminator(s, i - 1)

\* the order in which the engine tries <<a, d, b, c>>: a greedy, d lazy,
\* b greedy, c greedy
TriedBefore(t, u) ==
    \/ t[1] > u[1]
    \/ t[1] = u[1] /\ t[2] < u[2]
    \/ t[1] = u[1] /\ t[2] = u[2] /\ t[3] > u[3]
    \/ t[1] = u[1] /\ t[2] = u[2] /\ t[3] = u[3] /\ t[4] >= u[4]

\* The backtracking search of the pattern: after the marker, a white space
\* characters, group 1 of d characters, b white space characters, the dash,
\* c white space characters, and group 2 the rest of the line. "." matches
\* no line terminator: group 1 lies within the run of other characters that
\* starts where it starts, and group 2 starts after the last line terminator
\* of the line. The match is the first in the engine's order.
activityMatch(line) ==
    LET n == Len(line)
        p == RunLen(line, 1, Digits) + 2
        lt == lastTerminator(line, n)
        OkC(a, d, b) ==
            {c \in 0..RunLen(line, p + a + d + b + 1, WhiteSpace) :
                /\ p + a + d + b + 1 + c <= n
                /\ p + a + d + b + 1 + c > lt}
        OkB(a, d) ==
            {b \in 0..RunLen(line, p + a + d, WhiteSpace) :
                At(line, p + a + d + b) \in {"-", EnDash}}
        OkD(a) == 1..RunLenNot(line, p + a, LineTerminators)
        OkA == 0..RunLen(line, p, WhiteSpace)
        matches ==
            UNION {UNION {UNION {{<<a, d, b, c>> : c \in OkC(a, d, b)}
                                 : b \in OkB(a, d)}
                          : d \in OkD(a)}
                   : a \in OkA}
    IN  IF isNumbered(line) /\ matches # {}
        THEN LET m == CHOOSE t \in matches : \A u \in matches : TriedBefore(t, u)
             IN  [matched |-> TRUE,
                  g1 |-> Sub(line, p + m[1], p + m[1] + m[2] - 1),
                  g2 |-> Sub(line, p + m[1] + m[2] + m[3] + 1 + m[4], n)]
        ELSE NoMatch

----------------------------------------------------------------------------
(* The time token *)

\* timeStr.match(/^\d*\.?\d+$/)
isBareNumber(timeStr) ==
    LET a == RunLen(timeStr, 1, Digits)
        b == RunLen(timeStr, a + 2, Digits)
    IN  IF At(timeStr, a + 1) = "."
        THEN b >= 1 /\ a + 1 + b = Len(timeStr)
        ELSE a >= 1 /\ a = Len(timeStr)

\* group 1 of the leftmost match of (run)\s*unit, where run is a longest run
\* of characters of S; "" when there is no match
unitMatch(timeStr, S, unit) ==
    LET Ok(i) ==
            LET r == RunLen(timeStr, i, S)
                w == RunLen(timeStr, i + r, WhiteSpace)
            IN  /\ r >= 1
                /\ Sub(timeStr, i + r + w, i + r + w + Len(unit) - 1) = unit
        starts == {i \in 1..Len(timeStr) : i + Len(unit) <= Len(timeStr) /\ Ok(i)}
    IN  IF starts = {} THEN ""
        ELSE LET i == Min(starts)
             IN  Sub(timeStr, i, i + RunLen(timeStr, i, S) - 1)

\* timeStr.match(/(\d+)\s*min/)
minMatch(timeStr) == unitMatch(timeStr, Digits, "min")

\* timeStr.match(/([\d.]+)\s*hrs?/)
hrMatch(timeStr) == unitMatch(timeStr, NumberChars, "hr")

\* the threshold compared with > instead of >=
threshold_strict(num) ==
    IF ~num.nan /\ num.v > 10 * Scale THEN num ELSE Times(num, 60)

\* num >= 10 ? num : num * 60
threshold(num) == IF GreaterEq(num, 10) THEN num ELSE Times(num, 60)

\* the "hr" branch tried before the "min" branch
resolveMinutes_hrFirst(timeStr) ==
    IF isBareNumber(timeStr) /\ ~includes(timeStr, "min")
    THEN threshold(parseFloat(timeStr))
    ELSE IF includes(timeStr, "hr")
    THEN (IF hrMatch(timeStr) # "" THEN Times(parseFloat(hrMatch(timeStr)), 60) ELSE Whole(0))
    ELSE IF includes(timeStr, "min")
    THEN (IF minMatch(timeStr) # "" THEN parseInt(minMatch(timeStr)) ELSE Whole(0))
    ELSE threshold(parseFloat(timeStr))

resolveMinutes(timeStr) ==
    IF isBareNumber(timeStr) /\ ~includes(timeStr, "min")
    THEN threshold(parseFloat(timeStr))
    ELSE IF includes(timeStr, "min")
    THEN (IF minMatch(timeStr) # "" THEN parseInt(minMatch(timeStr)) ELSE Whole(0))
    ELSE IF includes(timeStr, "hr")
    THEN (IF hrMatch(timeStr) # "" THEN Times(parseFloat(hrMatch(timeStr)), 60) ELSE Whole(0))
    ELSE threshold(parseFloat(timeStr))

----------------------------------------------------------------------------
(* parseAndStructure *)

\* totalMinutes = minutes instead of totalMinutes += minutes
processLine_assignTotal(acc, line) ==
    LET m == activityMatch(line)
    IN  IF isNumbered(line) /\ m.matched
        THEN LET minutes == resolveMinutes(trim(m.g2))
             IN  [activities |-> Append(acc.activities,
                                        [description |-> trim(m.g1),
                                         timeStr |-> trim(m.g2),
                                         minutes |-> minutes]),
                  totalMinutes |-> minutes]
        ELSE acc

\* a numbered line without a dash kept as an activity of no duration
processLine_keepUnmatched(acc, line) ==
    LET m == activityMatch(line)
    IN  IF isNumbered(line)
        THEN LET minutes == IF m.matched THEN resolveMinutes(trim(m.g2)) ELSE Whole(0)
             IN  [activities |-> Append(acc.activities,
                                        [description |-> IF m.matched THEN trim(m.g1) ELSE trim(line),
                                         timeStr |-> trim(m.g2),
                                         minutes |-> minutes]),
                  totalMinutes |-> Plus(acc.totalMinutes, minutes)]
        ELSE acc

\* the body of the forEach callback: acc is the pair (activities, totalMinutes)
processLine(acc, line) ==
    LET m == activityMatch(line)
    IN  IF isNumbered(line) /\ m.matched
        THEN LET activity == trim(m.g1)
                 timeStr == trim(m.g2)
                 minutes == resolveMinutes(timeStr)
             IN  [activities |-> Append(acc.activities,
                                        [description |-> activity,
                                         timeStr |-> timeStr,
                                         minutes |-> minutes]),
                  totalMinutes |-> Plus(acc.totalMinutes, minutes)]
        ELSE acc

\* (x / 60).toFixed(2), as a number: the nearest multiple of 1/100
toFixed2Hours(x) ==
    IF x.nan THEN NaN
    ELSE LET step == Scale \div 100
             mag == IF x.v >= 0 THEN x.v ELSE 0 - x.v
             r == ((mag + 30 * step) \div (60 * step)) * step
         IN  Num(IF x.v >= 0 THEN r ELSE 0 - r)

firstLineOf(ls) == IF Len(ls) >= 1 THEN ls[1] ELSE ""

structuredNote(name, d, acts, total) ==
    [clientName |-> name,
     date |-> d,
     activities |-> acts,
     totalHours |-> toFixed2Hours(total),
     totalMinutes |-> total]

RECURSIVE forEachFrom(_, _, _)
forEachFrom(ls, i, acc) ==
    IF i > Len(ls) THEN acc
    ELSE forEachFrom(ls, i + 1, processLine(acc, ls[i]))

\* the whole function, for its callers
parseAndStructure(t) ==
    LET ls == splitLines(t)
        acc == forEachFrom(ls, 2, [activities |-> <<>>, totalMinutes |-> Whole(0)])
    IN  structuredNote(headerName(firstLineOf(ls)), headerDate(firstLineOf(ls)),
                       acc.activities, acc.totalMinutes)

----------------------------------------------------------------------------
(* Inputs *)

gwynneNoteExamples == <<
    "Susan Johnson 3/15/24\n1. Phone call insurance company about coverage denial - 75\n2. Visit client at assisted living facility - 1.25  \n3. Meeting with care team about medication changes - 45\n4. Follow up call to family about updates - 25\n5. Documentation and care plan updates - 30",
    "Robert Chen 3/18/24\n1. Hospital visit - reviewed discharge planning - 90\n2. Coordination call with social worker - 30\n3. Insurance authorization request - 45\n4. Family meeting via phone - 60\n5. Care transition documentation - 20",
    "Maria Rodriguez 3/20/24\n1. Home visit - assessment and support - 2.0\n2. Call to primary care physician office - 15\n3. Prescription assistance coordination - 45\n4. Follow up with pharmacy about delivery - 20\n5. Weekly summary report preparation - 35" >>

Examples == {gwynneNoteExamples[i] : i \in 1..Len(gwynneNoteExamples)}

\* first lines of a note
Headers ==
    {"", "Susan Johnson 3/15/24", "Susan Johnson", "  Susan Johnson 3/15/24",
     "Susan Johnson 3/15/24 ", "Susan Johnson 3/15/24\r", "Susan Johnson  1/2/2024",
     "  3/15/24", "\t3/15/24", "3/15/24", "12345", "Room 5 3/15/24",
     "Susan 123/15/24", "1. call - 30", "   "}

\* lines after the first
BodyLines ==
    {"1. call - 75", "2. visit - 1.25", "3. meet ~ 45 min",
     "4. Hospital visit - reviewed discharge planning - 90",
     "5. call - abc", "1. call - -5", "6. call - 30\r", "7.x-9.9",
     "not a numbered line", "8. no dash here", " 9. indented - 20", "",
     "  ", "10.  - 5", "11. call -  "}

\* time tokens named by the documentation
ExampleTokens ==
    {"9.9", "10", "10.5", "75", "1.25", "2.0", "45 min", "90 mins", "1.5 hrs",
     "1.5 min", "2 hr 30 min", "about 45 min", "abc", "-5", "0", ".5", "5."}

Pieces == {"1", ".", "-", " ", "min", "hr", "x"}

\* every concatenation of at most n pieces
RECURSIVE TokensUpTo(_)
TokensUpTo(n) ==
    IF n = 0 THEN {""}
    ELSE LET T == TokensUpTo(n - 1)
         IN  T \cup {t \o p : t \in T, p \in Pieces}

Tokens == ExampleTokens \cup TokensUpTo(MaxPieces)

\* every sequence of at most n body lines, each preceded by a newline
RECURSIVE BodiesUpTo(_)
BodiesUpTo(n) ==
    IF n = 0 THEN {""}
    ELSE LET B == BodiesUpTo(n - 1)
         IN  B \cup {b \o "\n" \o l : b \in B, l \in BodyLines}

Texts ==
    Examples
    \cup {h \o b : h \in Headers, b \in BodiesUpTo(1)}
    \cup {"Susan Johnson 3/15/24" \o b : b \in BodiesUpTo(MaxLines)}
    \cup {"Susan Johnson\n1. call - " \o t : t \in Tokens}

----------------------------------------------------------------------------
(* State *)

null == <<>>
Some(x) == <<x>>

ParserIdle ==
    /\ lines = <<>>
    /\ idx = 0
    /\ clientName = ""
    /\ date = ""
    /\ activities = <<>>
    /\ totalMinutes = Whole(0)
    /\ result = null
    /\ src = <<>>

\* the useState initial values
Mounted ==
    /\ uploadedImage = null
    /\ extractedText = ""
    /\ structuredData = null
    /\ isProcessing = FALSE
    /\ processingStep = ""
    /\ tasks = <<>>
    /\ sinceReset = FALSE

Init ==
    /\ text \in Texts
    /\ pc = "start"
    /\ ParserIdle
    /\ Mounted

----------------------------------------------------------------------------
(* parseAndStructure, step by step *)

\* lines 75-85
ParseHeader ==
    /\ pc = "start"
    /\ lines' = splitLines(text)
    /\ clientName' = headerName(firstLineOf(lines'))
    /\ date' = headerDate(firstLineOf(lines'))
    /\ activities' = <<>>
    /\ totalMinutes' = Whole(0)
    /\ idx' = 2
    /\ pc' = "loop"
    /\ UNCHANGED <<text, result, src, uiVars>>

\* the accumulator of the loop before its next call
accumulator == [activities |-> activities, totalMinutes |-> totalMinutes]

\* one call of the forEach callback, lines 87-120
ForEachLine ==
    /\ pc = "loop"
    /\ idx <= Len(lines)
    /\ activities' = processLine(accumulator, lines[idx]).activities
    /\ totalMinutes' = processLine(accumulator, lines[idx]).totalMinutes
    /\ src' = IF Len(activities') > Len(activities) THEN Append(src, idx) ELSE src
    /\ idx' = idx + 1
    /\ UNCHANGED <<text, pc, lines, clientName, date, result, uiVars>>

\* lines 122-128
Return ==
    /\ pc = "loop"
    /\ idx > Len(lines)
    /\ result' = Some(structuredNote(clientName, date, activities, totalMinutes))
    /\ pc' = "done"
    /\ UNCHANGED <<text, lines, idx, clientName, date, activities, totalMinutes, src, uiVars>>

Next == ParseHeader \/ ForEachLine \/ Return

Spec == Init /\ [][Next]_vars

----------------------------------------------------------------------------
(* GwynneApp: the event handlers and their asynchronous completions *)

\* event.target.files[0]: no file, a file that is no image, an image
Files == {"", "text/plain", "image/png"}

\* what worker.recognize may read from an image
OcrTexts == {"", "Susan Johnson 3/15/24\n1. call - 75\n2. visit - 1.25"}

Task(kind, stage, example, recognized) ==
    [kind |-> kind, stage |-> stage, example |-> example, recognized |-> recognized]

\* the texts a completion can hand to parseAndStructure, and what it returns
UiTexts == OcrTexts \cup Examples
structured == [t \in UiTexts |-> parseAndStructure(t)]

Remove(seq, i) == [j \in 1..(Len(seq) - 1) |-> IF j < i THEN seq[j] ELSE seq[j + 1]]

UiIdle ==
    /\ text = ""
    /\ pc = "idle"
    /\ ParserIdle

InitUI ==
    /\ UiIdle
    /\ Mounted

\* the inputs and the demo buttons are rendered only while there is no image
\* (line 259)
UploadRendered == uploadedImage = null

\* "Take New Photo" (line 310) or "Start Over" (line 340)
ResetRendered ==
    \/ uploadedImage # null
    \/ structuredData # null /\ ~isProcessing

\* lines 132-157, up to reader.readAsDataURL(file)
handleImageUpload(file) ==
    /\ UploadRendered
    /\ Len(tasks) < MaxTasks
    /\ IF file # "" /\ Sub(file, 1, 6) = "image/"
       THEN /\ isProcessing' = TRUE
            /\ processingStep' = "Loading image..."
            /\ tasks' = Append(tasks, Task("reader", "", 0, ""))
            /\ sinceReset' = FALSE
            /\ UNCHANGED <<uploadedImage, extractedText, structuredData>>
       ELSE UNCHANGED uiVars
    /\ UNCHANGED parserVars

\* reader.onload up to the first await of performOCR, lines 139-143 and 48-52
readerOnload(i) ==
    /\ tasks[i].kind = "reader"
    /\ uploadedImage' = Some("data:image/png;base64")
    /\ processingStep' = "Initializing OCR..."
    /\ tasks' = [tasks EXCEPT ![i] = Task("ocr", "createWorker", 0, "")]
    /\ UNCHANGED <<extractedText, structuredData, isProcessing, sinceReset, parserVars>>

\* lines 144-146 and the finally block, 150-153; lines 223-227 of the timer
store(i, t) ==
    /\ extractedText' = t
    /\ structuredData' = Some(structured[t])
    /\ isProcessing' = FALSE
    /\ processingStep' = ""
    /\ tasks' = Remove(tasks, i)
    /\ UNCHANGED <<uploadedImage, sinceReset, parserVars>>

\* an awaited call of performOCR resolves, lines 52-64
ocrResolve(i) ==
    /\ tasks[i].kind = "ocr"
    /\ \/ /\ tasks[i].stage = "createWorker"
          /\ processingStep' = "Loading language model..."
          /\ tasks' = [tasks EXCEPT ![i].stage = "loadLanguage"]
          /\ UNCHANGED <<uploadedImage, extractedText, structuredData, isProcessing,
                         sinceReset, parserVars>>
       \/ /\ tasks[i].stage = "loadLanguage"
          /\ tasks' = [tasks EXCEPT ![i].stage = "initialize"]
          /\ UNCHANGED <<uploadedImage, extractedText, structuredData, isProcessing,
                         processingStep, sinceReset, parserVars>>
       \/ /\ tasks[i].stage = "initialize"
          /\ processingStep' = "Analyzing handwritten text..."
          /\ tasks' = [tasks EXCEPT ![i].stage = "recognize"]
          /\ UNCHANGED <<uploadedImage, extractedText, structuredData, isProcessing,
                         sinceReset, parserVars>>
       \/ /\ tasks[i].stage = "recognize"
          /\ processingStep' = "Cleaning up..."
          /\ \E t \in OcrTexts :
                tasks' = [tasks EXCEPT ![i].stage = "terminate", ![i].recognized = t]
          /\ UNCHANGED <<uploadedImage, extractedText, structuredData, isProcessing,
                         sinceReset, parserVars>>
       \/ /\ tasks[i].stage = "terminate"
          /\ store(i, tasks[i].recognized)

\* an awaited call of performOCR rejects: the catch block, lines 65-70
ocrReject(i) ==
    /\ tasks[i].kind = "ocr"
    /\ \E e \in 1..Len(gwynneNoteExamples) : store(i, gwynneNoteExamples[e])

\* lines 218-222
runDemo(e) ==
    /\ UploadRendered
    /\ Len(tasks) < MaxTasks
    /\ isProcessing' = TRUE
    /\ processingStep' = "Processing demo..."
    /\ tasks' = Append(tasks, Task("demo", "", e, ""))
    /\ sinceReset' = FALSE
    /\ UNCHANGED <<uploadedImage, extractedText, structuredData, parserVars>>

\* the timer of line 222 fires; timers of equal delay fire in the order set
demoTimeout(i) ==
    /\ tasks[i].kind = "demo"
    /\ \A j \in 1..(i - 1) : tasks[j].kind # "demo"
    /\ store(i, gwynneNoteExamples[tasks[i].example])

\* lines 231-237
reset ==
    /\ ResetRendered
    /\ uploadedImage' = null
    /\ extractedText' = ""
    /\ structuredData' = null
    /\ isProcessing' = FALSE
    /\ processingStep' = ""
    /\ sinceReset' = TRUE
    /\ UNCHANGED <<tasks, parserVars>>

NextUI ==
    \/ \E f \in Files : handleImageUpload(f)
    \/ \E i \in 1..Len(tasks) : readerOnload(i)
    \/ \E i \in 1..Len(tasks) : ocrResolve(i)
    \/ \E i \in 1..Len(tasks) : ocrReject(i)
    \/ \E e \in 1..Len(gwynneNoteExamples) : runDemo(e)
    \/ \E i \in 1..Len(tasks) : demoTimeout(i)
    \/ reset

SpecUI == InitUI /\ [][NextUI]_vars

----------------------------------------------------------------------------
(* Properties *)

Returned == pc = "done"
note == result[1]

AllIn(s, i, j, S) == \A x \in i..j : At(s, x) \in S
NoneIn(s, i, j, S) == \A x \in i..j : At(s, x) \notin S

\* the sum of the minutes of a list of activities, from the left
RECURSIVE SumFirst(_, _)
SumFirst(acts, n) ==
    IF n = 0 THEN Whole(0) ELSE Plus(SumFirst(acts, n - 1), acts[n].minutes)

SumMinutes(acts) == SumFirst(acts, Len(acts))

StepsLeft ==
    IF pc = "start" THEN Len(splitLines(text)) + 2
    ELSE IF pc = "loop" THEN (IF idx <= Len(lines) THEN Len(lines) - idx + 2 ELSE 1)
    ELSE 0

\* C2: parseAndStructure is total: on every input every step is defined and
\* brings the call nearer to its return statement, which returns a record;
\* for the empty string the record is clientName "Client", the current date,
\* no activities, 0 minutes.
C2_Total ==
    /\ [][StepsLeft' < StepsLeft]_vars
    /\ [](StepsLeft = 0 <=> Returned)
    /\ [](Returned <=> result # null)
    /\ [](Returned /\ text = "" =>
            /\ note.clientName = "Client"
            /\ note.date = Today
            /\ note.activities = <<>>
            /\ note.totalMinutes = Whole(0))

C2_Witness == Returned /\ text = "" /\ note.clientName = "Client"

\* the token starts with a number: [+-] then a digit, or "." and a digit
StartsWithNumber(t) ==
    LET u == IF At(t, 1) \in {"+", "-"} THEN Sub(t, 2, Len(t)) ELSE t
    IN  At(u, 1) \in Digits \/ (At(u, 1) = "." /\ At(u, 2) \in Digits)

\* position pairs i..j of t holding a longest run of characters of S that is
\* followed by optional white space and then unit
Attached(t, S, unit) ==
    {ij \in (1..Len(t)) \X (1..Len(t)) :
        /\ ij[1] <= ij[2]
        /\ AllIn(t, ij[1], ij[2], S)
        /\ At(t, ij[1] - 1) \notin S
        /\ At(t, ij[2] + 1) \notin S
        /\ \E w \in 0..Len(t) :
              /\ AllIn(t, ij[2] + 1, ij[2] + w, WhiteSpace)
              /\ Sub(t, ij[2] + w + 1, ij[2] + w + Len(unit)) = unit}

\* the first such run, "" when there is none
FirstAttached(t, S, unit) ==
    IF Attached(t, S, unit) = {} THEN ""
    ELSE LET ij == CHOOSE x \in Attached(t, S, unit) :
                       \A y \in Attached(t, S, unit) : x[1] <= y[1]
         IN  Sub(t, ij[1], ij[2])

\* C3 as claimed: an activity whose time token holds no number that any
\* branch can parse (it does not start with a number and no number is
\* attached to "min" or "hr") is retained with minutes = 0.
C3_UnparseableIsZero ==
    \A k \in 1..Len(activities) :
        LET t == activities[k].timeStr
        IN  /\ ~StartsWithNumber(t)
            /\ FirstAttached(t, Digits, "min") = ""
            /\ FirstAttached(t, NumberChars, "hr") = ""
            => activities[k].minutes = Whole(0)

\* C4 as claimed: the minutes of every activity are a number >= 0.
C4_MinutesNonNegative ==
    \A k \in 1..Len(activities) :
        ~activities[k].minutes.nan /\ activities[k].minutes.v >= 0

\* a purely numeric token: digits with at most one ".", at least one digit
PurelyNumeric(t) ==
    /\ t # ""
    /\ AllIn(t, 1, Len(t), NumberChars)
    /\ Cardinality({i \in 1..Len(t) : At(t, i) = "."}) <= 1
    /\ \E i \in 1..Len(t) : At(t, i) \in Digits

\* its value, in units of 1/Scale
DecimalValue(t) ==
    LET dot == IF \E i \in 1..Len(t) : At(t, i) = "."
               THEN CHOOSE i \in 1..Len(t) : At(t, i) = "."
               ELSE Len(t) + 1
    IN  DigitsValue(Sub(t, 1, dot - 1)) * Scale
        + FracValue(Sub(t, dot + 1, Len(t)), Scale \div 10)

MinutesOf(t) ==
    {activities[k].minutes : k \in {j \in 1..Len(activities) : activities[j].timeStr = t}}

\* C5: a purely numeric token of value v gives v minutes when v >= 10 and
\* v * 60 minutes when v < 10; "9.9" gives 594, "10" gives 10, "10.5" gives
\* 10.5, "75" gives 75 and "1.25" gives 75.
C5_BareNumberThreshold ==
    /\ \A k \in 1..Len(activities) :
          LET t == activities[k].timeStr
              v == DecimalValue(t)
          IN  PurelyNumeric(t) =>
                  activities[k].minutes = Num(IF v >= 10 * Scale THEN v ELSE v * 60)
    /\ MinutesOf("9.9") \subseteq {Whole(594)}
    /\ MinutesOf("10") \subseteq {Whole(10)}
    /\ MinutesOf("10.5") \subseteq {Num(10 * Scale + Scale \div 2)}
    /\ MinutesOf("75") \subseteq {Whole(75)}
    /\ MinutesOf("1.25") \subseteq {Whole(75)}

C5_Witness ==
    /\ Returned
    /\ \E t \in {"9.9", "10", "10.5", "75", "1.25"} : MinutesOf(t) # {}
    /\ MinutesOf("9.9") = {Whole(594)} \/ MinutesOf("10") = {Whole(10)}

LeadingRun(t, S) == Sub(t, 1, RunLen(t, 1, S))

RunValue(r) ==
    LET i == RunLen(r, 1, Digits)
        f == IF At(r, i + 1) = "." THEN RunLen(r, i + 2, Digits) ELSE 0
    IN  IF i + f = 0 THEN NaN ELSE Num(DecimalValue(Sub(r, 1, i + 1 + f)))

IsEntry(line) ==
    LET m == RunLen(line, 1, Digits)
        n == Len(line)
    IN  /\ m >= 1
        /\ At(line, m + 1) = "."
        /\ \E q \in (m + 2)..n :
              /\ At(line, q) \in {"-", EnDash}
              /\ \E x \in (m + 2)..(q - 1) :
                    /\ AllIn(line, m + 2, x - 1, WhiteSpace)
                    /\ \E y \in x..(q - 1) :
                          /\ NoneIn(line, x, y, LineTerminators)
                          /\ AllIn(line, y + 1, q - 1, WhiteSpace)
              /\ \E r \in (q + 1)..n :
                    /\ AllIn(line, q + 1, r - 1, WhiteSpace)
                    /\ NoneIn(line, r, n, LineTerminators)

\* the indices, in order, of the entries among lines 2 .. last of the note
EntriesUpTo(last) ==
    SelectSeq([i \in 1..(last - 1) |-> i + 1], LAMBDA i : IsEntry(lines[i]))

EndsWith(s, tail) == Sub(s, Len(s) - Len(tail) + 1, Len(s)) = tail

\* C7: the activities are, in order, exactly the lines after the header line
\* that have the shape of a numbered entry, one activity each, made of that
\* line's text; no other line adds an activity or minutes.
C7_OneActivityPerEntry ==
    pc \in {"loop", "done"} =>
        /\ src = EntriesUpTo(idx - 1)
        /\ Len(activities) = Len(src)
        /\ \A k \in 1..Len(activities) :
              /\ includes(lines[src[k]], activities[k].description)
              /\ EndsWith(trimEnd(lines[src[k]]), activities[k].timeStr)
        /\ totalMinutes = SumMinutes(activities)
        /\ Returned => note.activities = activities /\ idx > Len(lines)

C7_Witness ==
    /\ Returned
    /\ Len(lines) = 3
    /\ ~IsEntry(lines[2])
    /\ isNumbered(lines[2])
    /\ src = <<3>>
    /\ Len(note.activities) = 1

\* C8 as claimed: the returned clientName is never empty.
C8_NameNonEmpty == Returned => note.clientName # ""

\* C9 as claimed: when the first non-empty line, without the white space
\* around it, is a non-digit name, white space and a date token, the
\* returned date is that token and clientName is that name.
C9_DateFromHeader ==
    Returned /\ lines # <<>> =>
        LET h == trim(lines[1])
        IN  \A k \in 1..Len(h) :
                /\ NoneIn(h, 1, k, Digits)
                /\ At(h, k) \notin WhiteSpace
                /\ RunLen(h, k + 1, WhiteSpace) >= 1
                /\ isDateToken(Sub(h, k + 1 + RunLen(h, k + 1, WhiteSpace), Len(h)))
                => /\ note.date = Sub(h, k + 1 + RunLen(h, k + 1, WhiteSpace), Len(h))
                   /\ note.clientName = Sub(h, 1, k)

\* C10 as claimed: once reset has run, and until an upload or a demo is
\* started, nothing is stored: structuredData and extractedText stay empty
\* and isProcessing stays false.
C10_ResetDiscards ==
    sinceReset => structuredData = null /\ extractedText = "" /\ ~isProcessing

====
